---- MODULE Spec2Model ----
(***************************************************************************)
(* Model of the hotel application's route layer (routes.py) and of its     *)
(* user-agent helper (ua_detect.py): the admin handlers that change        *)
(* reports, report history, photos, media files and devices, the report    *)
(* listing, and the media endpoint.                                        *)
(*                                                                         *)
(* Strings that the code normalises (strip, lower) are sequences of        *)
(* one-character strings, so that the normalisation is computed.           *)
(* Optional values are <<>> (None) or <<v>>.                               *)
(***************************************************************************)
EXTENDS Integers, Sequences, FiniteSets, TLC

\* ------------------------------------------------------------------ bounds
NumReports == 2
NumDevices == 1
NumPhotos == 2
MaxTime == 1
\* reports in the store the listing pages through
MaxListed == 12
\* pieces a user agent string is put together from
MaxTokens == 3
\* mark_done and reopen requests that may be in flight at once
NumWorkers == 2

ReportIds == 1..NumReports
DeviceIds == 1..NumDevices
PhotoIds == 1..NumPhotos
\* ids a request may name: every id of the store and one that never exists
ReportIdInputs == 1..(NumReports + 1)
DeviceIdInputs == 1..(NumDevices + 1)
PhotoIdInputs == 1..(NumPhotos + 1)

None == <<>>
Some(v) == <<v>>

\* ------------------------------------------------------------------ strings
UpperChars == <<"A","B","C","D","E","F","G","H","I","J","K","L","M",
                "N","O","P","Q","R","S","T","U","V","W","X","Y","Z">>
LowerChars == <<"a","b","c","d","e","f","g","h","i","j","k","l","m",
                "n","o","p","q","r","s","t","u","v","w","x","y","z">>
Whitespace == {" ", "\t", "\n"}

\* str.lower() on one character
LowerChar(c) ==
    IF \E i \in 1..Len(UpperChars) : UpperChars[i] = c
    THEN LowerChars[CHOOSE i \in 1..Len(UpperChars) : UpperChars[i] = c]
    ELSE c

\* str.lower()
Lower(s) == [i \in 1..Len(s) |-> LowerChar(s[i])]

\* str.strip(): drops leading and trailing whitespace
Strip(s) ==
    LET keep == {i \in 1..Len(s) : s[i] \notin Whitespace}
    IN IF keep = {} THEN <<>>
       ELSE LET lo == CHOOSE i \in keep : \A j \in keep : i <= j
                hi == CHOOSE i \in keep : \A j \in keep : j <= i
            IN SubSeq(s, lo, hi)

\* keys of WEB_APP_ROLES
housekeeping == <<"h","o","u","s","e","k","e","e","p","i","n","g">>
frontdesk == <<"f","r","o","n","t","d","e","s","k">>
maintenance == <<"m","a","i","n","t","e","n","a","n","c","e">>
breakfast == <<"b","r","e","a","k","f","a","s","t">>
WEB_APP_ROLES == {housekeeping, frontdesk, maintenance, breakfast}

\* role strings a form may carry: exact keys, an unknown value, a key in
\* another case and padded with blanks, the empty string
bogus_role == <<"b","o","g","u","s","_","r","o","l","e">>
PaddedFrontDesk == <<" ","F","r","o","n","t","D","e","s","k"," ">>
RoleLists ==
    { <<>>,
      <<bogus_role, <<>> >>,
      <<housekeeping, bogus_role>>,
      <<PaddedFrontDesk, maintenance>> }

\* {r.strip().lower() for r in roles if r.strip().lower() in allowed_role_keys}
SelectedRoles(roles) ==
    { Lower(Strip(roles[i])) : i \in { j \in 1..Len(roles) : Lower(Strip(roles[j])) \in WEB_APP_ROLES } }

\* ------------------------------------------------------------------ state
VARIABLES
    reports,    \* Report rows by id: status, done_at, done_by_device_id, ...
    history,    \* ReportHistory rows in insertion order
    photos,     \* ids of the ReportPhoto rows
    files,      \* media files on disk, by photo: whether the original exists, and
                \* the thumbnail: absent | uploaded | generated | partial
    devices,    \* Device rows by id: status, roles, activated_at, revoked_at
    now,        \* the clock _now() reads
    resp,       \* the last request and its response
    listed,     \* the listing a client pages through: its query, the pages so far
    client,     \* the user agent handed to the classifier, and the profile returned
    sessions    \* the database sessions of the requests in flight: what each has read

vars == <<reports, history, photos, files, devices, now, resp, listed, client, sessions>>

\* ReportPhoto.report_id: photos 1 and 2 belong to report 1, 3 and 4 to report 2, ...
Owner(p) == (((p - 1) \div 2) % NumReports) + 1

Response(op, id, outcome) ==
    [op |-> op, id |-> id, outcome |-> outcome,
     roles |-> <<>>,         \* the roles form field of a device request that was let in
     kind |-> "none",        \* the kind path parameter of a media request that was let in
     media |-> "none",       \* media-file deletion: none | ok | failed
     generated |-> "none",   \* thumbnail generation: none | ok | fail_early | fail_partial
     served |-> None]        \* the file served: <<photo, kind, content>>

\* a request that raises before its first write: nothing is committed
Reject(op, id, outcome) ==
    /\ resp' = Response(op, id, outcome)
    /\ UNCHANGED <<reports, history, photos, files, devices, now>>

\* ------------------------------------------------------------------ reports
\* mutant: from_status read after report.status was assigned
HistoryRow_from_after(report_id, action, from_status, to_status) ==
    [report_id |-> report_id, action |-> action, actor_type |-> "ADMIN",
     actor_device_id |-> None, from_status |-> to_status, to_status |-> to_status]

HistoryRow(report_id, action, from_status, to_status) ==
    [report_id |-> report_id, action |-> action, actor_type |-> "ADMIN",
     actor_device_id |-> None, from_status |-> from_status, to_status |-> to_status]

\* mutant: no test of the status before the write
admin_report_done_unguarded(report_id, authed, csrfOk) ==
    IF ~authed THEN Reject("done", report_id, "auth_error")
    ELSE IF ~csrfOk THEN Reject("done", report_id, "csrf_error")
    ELSE IF report_id \notin DOMAIN reports THEN Reject("done", report_id, "not_found")
    ELSE /\ now <= MaxTime
         /\ reports' = [reports EXCEPT ![report_id] =
                          [@ EXCEPT !.status = "DONE",
                                    !.done_at = Some(now),
                                    !.done_by_device_id = None]]
         /\ history' = Append(history,
                          [report_id |-> report_id, action |-> "MARK_DONE", actor_type |-> "ADMIN",
                           actor_device_id |-> None,
                           from_status |-> reports[report_id].status, to_status |-> "DONE"])
         /\ now' = now + 1
         /\ resp' = Response("done", report_id, "redirect")
         /\ UNCHANGED <<photos, files, devices>>

\* POST /admin/reports/{report_id}/done
admin_report_done(report_id, authed, csrfOk) ==
    IF ~authed THEN Reject("done", report_id, "auth_error")
    ELSE IF ~csrfOk THEN Reject("done", report_id, "csrf_error")
    ELSE IF report_id \notin DOMAIN reports THEN Reject("done", report_id, "not_found")
    ELSE IF reports[report_id].status # "DONE"
    THEN /\ now <= MaxTime
         /\ reports' = [reports EXCEPT ![report_id] =
                          [@ EXCEPT !.status = "DONE",
                                    !.done_at = Some(now),
                                    !.done_by_device_id = None]]
         /\ history' = Append(history,
                          HistoryRow(report_id, "MARK_DONE", reports[report_id].status, "DONE"))
         /\ now' = now + 1
         /\ resp' = Response("done", report_id, "redirect")
         /\ UNCHANGED <<photos, files, devices>>
    ELSE /\ resp' = Response("done", report_id, "redirect")
         /\ UNCHANGED <<reports, history, photos, files, devices, now>>

\* mutant: reopen undoes the mark_done: it takes the report's last history
\* row back instead of appending one
admin_report_reopen_takes_row_back(report_id, authed, csrfOk) ==
    IF ~authed THEN Reject("reopen", report_id, "auth_error")
    ELSE IF ~csrfOk THEN Reject("reopen", report_id, "csrf_error")
    ELSE IF report_id \notin DOMAIN reports THEN Reject("reopen", report_id, "not_found")
    ELSE IF reports[report_id].status # "OPEN"
    THEN LET own == {i \in 1..Len(history) : history[i].report_id = report_id}
             last == CHOOSE i \in own : \A j \in own : j <= i
         IN /\ reports' = [reports EXCEPT ![report_id] =
                             [@ EXCEPT !.status = "OPEN",
                                       !.done_at = None,
                                       !.done_by_device_id = None]]
            /\ history' = IF own = {}
                          THEN Append(history,
                                  [report_id |-> report_id, action |-> "REOPEN",
                                   actor_type |-> "ADMIN", actor_device_id |-> None,
                                   from_status |-> reports[report_id].status,
                                   to_status |-> "OPEN"])
                          ELSE SubSeq(history, 1, last - 1)
                                  \o SubSeq(history, last + 1, Len(history))
            /\ resp' = Response("reopen", report_id, "redirect")
            /\ UNCHANGED <<photos, files, devices, now>>
    ELSE /\ resp' = Response("reopen", report_id, "redirect")
         /\ UNCHANGED <<reports, history, photos, files, devices, now>>

\* mutant: done_at is not cleared
admin_report_reopen_keeps_done_at(report_id, authed, csrfOk) ==
    IF ~authed THEN Reject("reopen", report_id, "auth_error")
    ELSE IF ~csrfOk THEN Reject("reopen", report_id, "csrf_error")
    ELSE IF report_id \notin DOMAIN reports THEN Reject("reopen", report_id, "not_found")
    ELSE IF reports[report_id].status # "OPEN"
    THEN /\ reports' = [reports EXCEPT ![report_id] =
                          [@ EXCEPT !.status = "OPEN", !.done_by_device_id = None]]
         /\ history' = Append(history,
                          [report_id |-> report_id, action |-> "REOPEN", actor_type |-> "ADMIN",
                           actor_device_id |-> None,
                           from_status |-> reports[report_id].status, to_status |-> "OPEN"])
         /\ resp' = Response("reopen", report_id, "redirect")
         /\ UNCHANGED <<photos, files, devices, now>>
    ELSE /\ resp' = Response("reopen", report_id, "redirect")
         /\ UNCHANGED <<reports, history, photos, files, devices, now>>

\* POST /admin/reports/{report_id}/reopen
admin_report_reopen(report_id, authed, csrfOk) ==
    IF ~authed THEN Reject("reopen", report_id, "auth_error")
    ELSE IF ~csrfOk THEN Reject("reopen", report_id, "csrf_error")
    ELSE IF report_id \notin DOMAIN reports THEN Reject("reopen", report_id, "not_found")
    ELSE IF reports[report_id].status # "OPEN"
    THEN /\ reports' = [reports EXCEPT ![report_id] =
                          [@ EXCEPT !.status = "OPEN",
                                    !.done_at = None,
                                    !.done_by_device_id = None]]
         /\ history' = Append(history,
                          HistoryRow(report_id, "REOPEN", reports[report_id].status, "OPEN"))
         /\ resp' = Response("reopen", report_id, "redirect")
         /\ UNCHANGED <<photos, files, devices, now>>
    ELSE /\ resp' = Response("reopen", report_id, "redirect")
         /\ UNCHANGED <<reports, history, photos, files, devices, now>>

\* db.delete(report): the row, and by the ORM cascade its photos and history rows
DeleteReportRows(rs, report_id) == [r \in (DOMAIN rs) \ {report_id} |-> rs[r]]
CascadePhotos(ps, report_id) == {p \in ps : Owner(p) # report_id}
CascadeHistory(h, report_id) == SelectSeq(h, LAMBDA row : row.report_id # report_id)

\* MediaStorage(...).delete_report(report_id): removes the report's files, or raises
MediaDeleteReport(fs, report_id, mediaFails) ==
    IF mediaFails THEN fs
    ELSE [p \in PhotoIds |->
            IF Owner(p) = report_id THEN [orig |-> FALSE, thumb |-> "absent"] ELSE fs[p]]

\* mutant: the media files are deleted inside the transaction, with no try
\* around it: a storage failure ends the request before the commit
admin_report_delete_media_first(report_id, authed, csrfOk, mediaFails) ==
    IF ~authed THEN Reject("delete", report_id, "auth_error")
    ELSE IF ~csrfOk THEN Reject("delete", report_id, "csrf_error")
    ELSE IF report_id \notin DOMAIN reports THEN Reject("delete", report_id, "not_found")
    ELSE IF mediaFails
    THEN /\ resp' = [Response("delete", report_id, "server_error") EXCEPT !.media = "failed"]
         /\ UNCHANGED <<reports, history, photos, files, devices, now>>
    ELSE /\ reports' = [r \in (DOMAIN reports) \ {report_id} |-> reports[r]]
         /\ photos' = {p \in photos : Owner(p) # report_id}
         /\ history' = SelectSeq(history, LAMBDA row : row.report_id # report_id)
         /\ files' = [p \in PhotoIds |->
                IF Owner(p) = report_id THEN [orig |-> FALSE, thumb |-> "absent"] ELSE files[p]]
         /\ resp' = [Response("delete", report_id, "redirect") EXCEPT !.media = "ok"]
         /\ UNCHANGED <<devices, now>>

\* POST /admin/reports/{report_id}/delete
admin_report_delete(report_id, authed, csrfOk, mediaFails) ==
    IF ~authed THEN Reject("delete", report_id, "auth_error")
    ELSE IF ~csrfOk THEN Reject("delete", report_id, "csrf_error")
    ELSE IF report_id \notin DOMAIN reports THEN Reject("delete", report_id, "not_found")
    ELSE \* db.delete(report); db.commit()
         /\ reports' = DeleteReportRows(reports, report_id)
         /\ photos' = CascadePhotos(photos, report_id)
         /\ history' = CascadeHistory(history, report_id)
         \* try: delete_report(report_id) except Exception: pass
         /\ files' = MediaDeleteReport(files, report_id, mediaFails)
         /\ resp' = [Response("delete", report_id, "redirect") EXCEPT
                        !.media = IF mediaFails THEN "failed" ELSE "ok"]
         /\ UNCHANGED <<devices, now>>

\* ------------------------------------------------------------------ devices
\* mutant: the filtered set is assigned even when it is empty
admin_device_activate_assigns_empty(device_id, roles, limited, authed, csrfOk) ==
    IF limited THEN Reject("activate", device_id, "rate_limited")
    ELSE IF ~authed THEN Reject("activate", device_id, "auth_error")
    ELSE IF ~csrfOk THEN Reject("activate", device_id, "csrf_error")
    ELSE IF device_id \notin DOMAIN devices THEN Reject("activate", device_id, "not_found")
    ELSE IF devices[device_id].status = "PENDING"
    THEN /\ now <= MaxTime
         /\ devices' = [devices EXCEPT ![device_id] =
                          [@ EXCEPT !.roles = SelectedRoles(roles),
                                    !.status = "ACTIVE",
                                    !.activated_at = Some(now)]]
         /\ now' = now + 1
         /\ resp' = [Response("activate", device_id, "redirect") EXCEPT !.roles = roles]
         /\ UNCHANGED <<reports, history, photos, files>>
    ELSE /\ resp' = [Response("activate", device_id, "redirect") EXCEPT !.roles = roles]
         /\ UNCHANGED <<reports, history, photos, files, devices, now>>

\* POST /admin/devices/{device_id}/activate
admin_device_activate(device_id, roles, limited, authed, csrfOk) ==
    IF limited THEN Reject("activate", device_id, "rate_limited")
    ELSE IF ~authed THEN Reject("activate", device_id, "auth_error")
    ELSE IF ~csrfOk THEN Reject("activate", device_id, "csrf_error")
    ELSE IF device_id \notin DOMAIN devices THEN Reject("activate", device_id, "not_found")
    ELSE IF devices[device_id].status = "PENDING"
    THEN LET selected_roles == SelectedRoles(roles)
         IN /\ now <= MaxTime
            /\ devices' = [devices EXCEPT ![device_id] =
                             [@ EXCEPT !.roles = IF selected_roles # {} THEN selected_roles ELSE @,
                                       !.status = "ACTIVE",
                                       !.activated_at = Some(now)]]
            /\ now' = now + 1
            /\ resp' = [Response("activate", device_id, "redirect") EXCEPT !.roles = roles]
            /\ UNCHANGED <<reports, history, photos, files>>
    ELSE /\ resp' = [Response("activate", device_id, "redirect") EXCEPT !.roles = roles]
         /\ UNCHANGED <<reports, history, photos, files, devices, now>>

\* mutant: as in activate, an empty filtered set leaves the roles alone
admin_device_roles_keeps_on_empty(device_id, roles, limited, authed, csrfOk) ==
    IF limited THEN Reject("roles", device_id, "rate_limited")
    ELSE IF ~authed THEN Reject("roles", device_id, "auth_error")
    ELSE IF ~csrfOk THEN Reject("roles", device_id, "csrf_error")
    ELSE IF device_id \notin DOMAIN devices THEN Reject("roles", device_id, "not_found")
    ELSE IF devices[device_id].status # "ACTIVE"
    THEN /\ resp' = [Response("roles", device_id, "redirect") EXCEPT !.roles = roles]
         /\ UNCHANGED <<reports, history, photos, files, devices, now>>
    ELSE /\ devices' = [devices EXCEPT ![device_id].roles =
                          IF SelectedRoles(roles) # {} THEN SelectedRoles(roles) ELSE @]
         /\ resp' = [Response("roles", device_id, "redirect") EXCEPT !.roles = roles]
         /\ UNCHANGED <<reports, history, photos, files, now>>

\* POST /admin/devices/{device_id}/roles
admin_device_roles(device_id, roles, limited, authed, csrfOk) ==
    IF limited THEN Reject("roles", device_id, "rate_limited")
    ELSE IF ~authed THEN Reject("roles", device_id, "auth_error")
    ELSE IF ~csrfOk THEN Reject("roles", device_id, "csrf_error")
    ELSE IF device_id \notin DOMAIN devices THEN Reject("roles", device_id, "not_found")
    ELSE IF devices[device_id].status # "ACTIVE"
    THEN /\ resp' = [Response("roles", device_id, "redirect") EXCEPT !.roles = roles]
         /\ UNCHANGED <<reports, history, photos, files, devices, now>>
    ELSE /\ devices' = [devices EXCEPT ![device_id].roles = SelectedRoles(roles)]
         /\ resp' = [Response("roles", device_id, "redirect") EXCEPT !.roles = roles]
         /\ UNCHANGED <<reports, history, photos, files, now>>

\* mutant: csrf_protect is called after the commit
admin_device_revoke_csrf_late(device_id, limited, authed, csrfOk) ==
    IF limited THEN Reject("revoke", device_id, "rate_limited")
    ELSE IF ~authed THEN Reject("revoke", device_id, "auth_error")
    ELSE IF device_id \notin DOMAIN devices THEN Reject("revoke", device_id, "not_found")
    ELSE IF devices[device_id].status # "REVOKED"
    THEN /\ now <= MaxTime
         /\ devices' = [devices EXCEPT ![device_id] =
                          [@ EXCEPT !.status = "REVOKED", !.revoked_at = Some(now)]]
         /\ now' = now + 1
         /\ resp' = Response("revoke", device_id, IF csrfOk THEN "redirect" ELSE "csrf_error")
         /\ UNCHANGED <<reports, history, photos, files>>
    ELSE /\ resp' = Response("revoke", device_id, IF csrfOk THEN "redirect" ELSE "csrf_error")
         /\ UNCHANGED <<reports, history, photos, files, devices, now>>

\* POST /admin/devices/{device_id}/revoke
admin_device_revoke(device_id, limited, authed, csrfOk) ==
    IF limited THEN Reject("revoke", device_id, "rate_limited")
    ELSE IF ~authed THEN Reject("revoke", device_id, "auth_error")
    ELSE IF ~csrfOk THEN Reject("revoke", device_id, "csrf_error")
    ELSE IF device_id \notin DOMAIN devices THEN Reject("revoke", device_id, "not_found")
    ELSE IF devices[device_id].status # "REVOKED"
    THEN /\ now <= MaxTime
         /\ devices' = [devices EXCEPT ![device_id] =
                          [@ EXCEPT !.status = "REVOKED", !.revoked_at = Some(now)]]
         /\ now' = now + 1
         /\ resp' = Response("revoke", device_id, "redirect")
         /\ UNCHANGED <<reports, history, photos, files>>
    ELSE /\ resp' = Response("revoke", device_id, "redirect")
         /\ UNCHANGED <<reports, history, photos, files, devices, now>>

\* POST /admin/devices/{device_id}/delete
admin_device_delete(device_id, limited, authed, csrfOk) ==
    IF limited THEN Reject("device_delete", device_id, "rate_limited")
    ELSE IF ~authed THEN Reject("device_delete", device_id, "auth_error")
    ELSE IF ~csrfOk THEN Reject("device_delete", device_id, "csrf_error")
    ELSE IF device_id \notin DOMAIN devices THEN Reject("device_delete", device_id, "not_found")
    ELSE /\ devices' = [d \in (DOMAIN devices) \ {device_id} |-> devices[d]]
         /\ resp' = Response("device_delete", device_id, "redirect")
         /\ UNCHANGED <<reports, history, photos, files, now>>

\* mutant: the bulk delete removes every device that is not ACTIVE
admin_devices_delete_pending_inactive(limited, authed, csrfOk) ==
    IF limited THEN Reject("delete_pending", 0, "rate_limited")
    ELSE IF ~authed THEN Reject("delete_pending", 0, "auth_error")
    ELSE IF ~csrfOk THEN Reject("delete_pending", 0, "csrf_error")
    ELSE LET pending == {d \in DOMAIN devices : devices[d].status # "ACTIVE"}
         IN /\ devices' = [d \in (DOMAIN devices) \ pending |-> devices[d]]
            /\ resp' = Response("delete_pending", 0, "redirect")
            /\ UNCHANGED <<reports, history, photos, files, now>>

\* POST /admin/devices/delete-pending
admin_devices_delete_pending(limited, authed, csrfOk) ==
    IF limited THEN Reject("delete_pending", 0, "rate_limited")
    ELSE IF ~authed THEN Reject("delete_pending", 0, "auth_error")
    ELSE IF ~csrfOk THEN Reject("delete_pending", 0, "csrf_error")
    ELSE LET pending == {d \in DOMAIN devices : devices[d].status = "PENDING"}
         IN /\ devices' = [d \in (DOMAIN devices) \ pending |-> devices[d]]
            /\ resp' = Response("delete_pending", 0, "redirect")
            /\ UNCHANGED <<reports, history, photos, files, now>>

\* ------------------------------------------------------------------ media
GenOutcomes == {"ok", "fail_early", "fail_partial"}

\* path.exists() for the photo's thumbnail or original
PathExists(fs, photo_id, kind) ==
    IF kind = "thumb" THEN fs[photo_id].thumb # "absent" ELSE fs[photo_id].orig

\* the try block: Image.open, convert, thumbnail, save; an exception at any
\* step is swallowed, after img.save may have created the file
GenerateThumb(fs, photo_id, gen) ==
    [fs EXCEPT ![photo_id].thumb =
        IF gen = "ok" THEN "generated" ELSE IF gen = "fail_partial" THEN "partial" ELSE @]

\* mutant: a thumbnail is generated whenever the original exists, also when
\* the thumbnail file is already there
admin_media_always_generates(photo_id, kind, authed, gen) ==
    IF ~authed THEN Reject("media", photo_id, "auth_error")
    ELSE IF kind \notin {"thumb", "original"} THEN Reject("media", photo_id, "bad_request")
    ELSE IF photo_id \notin photos THEN Reject("media", photo_id, "not_found")
    ELSE LET generating == kind = "thumb" /\ files[photo_id].orig
             after == IF generating THEN GenerateThumb(files, photo_id, gen) ELSE files
             answer == [Response("media", photo_id, "file") EXCEPT
                          !.kind = kind,
                          !.generated = IF generating THEN gen ELSE "none"]
         IN /\ files' = after
            /\ resp' = IF PathExists(after, photo_id, kind)
                       THEN [answer EXCEPT
                                !.served = Some(<<photo_id, kind,
                                    IF kind = "thumb" THEN after[photo_id].thumb ELSE "original">>)]
                       ELSE [answer EXCEPT !.outcome = "not_found"]
            /\ UNCHANGED <<reports, history, photos, devices, now>>

\* GET /admin/media/{photo_id}/{kind}
admin_media(photo_id, kind, authed, gen) ==
    IF ~authed THEN Reject("media", photo_id, "auth_error")
    ELSE IF kind \notin {"thumb", "original"} THEN Reject("media", photo_id, "bad_request")
    ELSE IF photo_id \notin photos THEN Reject("media", photo_id, "not_found")
    ELSE LET generating == ~PathExists(files, photo_id, kind)
                              /\ kind = "thumb" /\ files[photo_id].orig
             after == IF generating THEN GenerateThumb(files, photo_id, gen) ELSE files
             answer == [Response("media", photo_id, "file") EXCEPT
                          !.kind = kind,
                          !.generated = IF generating THEN gen ELSE "none"]
         IN /\ files' = after
            /\ resp' = IF PathExists(after, photo_id, kind)
                       THEN [answer EXCEPT
                                !.served = Some(<<photo_id, kind,
                                    IF kind = "thumb" THEN after[photo_id].thumb ELSE "original">>)]
                       ELSE [answer EXCEPT !.outcome = "not_found"]
            /\ UNCHANGED <<reports, history, photos, devices, now>>

\* ------------------------------------------------------------------ listing
PageMax == 10000
PerPageMin == 10
PerPageMax == 100
\* created_at and the date filter count in ticks; a calendar day has this many
TicksPerDay == 2

\* [*range(101, 110)] + [*range(201, 211)] + [*range(301, 311)]
ROOMS_ALLOWED == (101..109) \cup (201..210) \cup (301..310)

Max(a, b) == IF a >= b THEN a ELSE b
Min(a, b) == IF a <= b THEN a ELSE b

\* bool(x) of an optional string: None and "" are false
Truthy(x) == x # None /\ x # Some("")

SortKeys == {"created_desc", "created_asc", "room_asc", "room_desc", "status_asc", "status_desc"}

\* ReportType(category), ReportStatus(status): the value, or ValueError
ReportTypeValues == {"FIND", "ISSUE"}
ReportStatusValues == {"OPEN", "DONE"}
\* position of a status in the enum, which the database sorts by
StatusRank(st) == IF st = "OPEN" THEN 0 ELSE 1

\* the category the filter uses: `type` stands in for an unset category
EffectiveCategory(q) == IF ~Truthy(q.category) /\ Truthy(q.type) THEN q.type ELSE q.category

\* the first validation that fails, in the order the handler runs them
QueryError(q) ==
    IF Truthy(EffectiveCategory(q)) /\ EffectiveCategory(q)[1] \notin ReportTypeValues
        THEN "Invalid category"
    ELSE IF Truthy(q.status) /\ q.status[1] \notin ReportStatusValues THEN "Invalid status"
    ELSE IF q.room # None /\ q.room[1] \notin ROOMS_ALLOWED THEN "Invalid room"
    ELSE IF q.date # None /\ ~q.date[1].iso THEN "Invalid date"
    ELSE IF q.sort \notin SortKeys THEN "Invalid sort"
    ELSE "none"

\* the WHERE clauses
Matches(r, q) ==
    /\ Truthy(EffectiveCategory(q)) => r.report_type = EffectiveCategory(q)[1]
    /\ Truthy(q.status) => r.status = q.status[1]
    /\ q.room # None => r.room = q.room[1]
    /\ q.date # None =>
          /\ r.created_at >= q.date[1].day * TicksPerDay
          /\ r.created_at < (q.date[1].day + 1) * TicksPerDay

\* -1, 0, 1: how ORDER BY compares two rows under a sort key
Cmp(a, b) == IF a < b THEN 0 - 1 ELSE IF a > b THEN 1 ELSE 0
OrderBy(x, y, sort) ==
    LET created_desc == Cmp(y.created_at, x.created_at)
        first ==
            CASE sort = "created_desc" -> created_desc
              [] sort = "created_asc" -> Cmp(x.created_at, y.created_at)
              [] sort = "room_asc" -> Cmp(x.room, y.room)
              [] sort = "room_desc" -> Cmp(y.room, x.room)
              [] sort = "status_asc" -> Cmp(StatusRank(x.status), StatusRank(y.status))
              [] sort = "status_desc" -> Cmp(StatusRank(y.status), StatusRank(x.status))
    IN IF first # 0 THEN first ELSE created_desc

\* the order in which the database returns rows that ORDER BY leaves equal:
\* nothing in the statement fixes it, and it may differ from one execution to
\* the next; two of the orders a database produces are modelled
TieOrders == {"id_asc", "id_desc"}

\* x is returned before y
Precedes(rs, x, y, sort, tie) ==
    LET c == OrderBy(rs[x], rs[y], sort)
    IN IF c # 0 THEN c < 0
       ELSE IF tie = "id_asc" THEN x < y ELSE x > y

\* the ids of the matching rows in the order one execution returns them
QueryRows(rs, q, tie) ==
    LET ids == {r \in DOMAIN rs : Matches(rs[r], q)}
        rank(x) == Cardinality({y \in ids : Precedes(rs, y, x, q.sort, tie)})
    IN [k \in 1..Cardinality(ids) |-> CHOOSE x \in ids : rank(x) = k - 1]

\* stmt.offset(offset).limit(limit)
OffsetLimit(rows, offset, limit) ==
    SubSeq(rows, offset + 1, Min(Len(rows), offset + limit))

\* GET /admin/reports
admin_reports_list(q, page_in, authed, tie) ==
    /\ UNCHANGED <<reports, history, photos, files, devices, now>>
    /\ IF ~authed
       THEN resp' = Response("list", page_in, "auth_error") /\ UNCHANGED listed
       ELSE LET page == Max(1, Min(page_in, PageMax))
                per_page == Max(PerPageMin, Min(q.per_page, PerPageMax))
            IN IF QueryError(q) # "none"
               THEN resp' = Response("list", page_in, "bad_request") /\ UNCHANGED listed
               ELSE LET rows == QueryRows(reports, q, tie)
                        total == Len(rows)
                        pages_total ==
                            IF total > 0 THEN Max(1, ((total - 1) \div per_page) + 1) ELSE 1
                    IN /\ resp' = Response("list", page_in, "html")
                       /\ listed' = [listed EXCEPT !.pages = Append(@,
                             [page |-> page, per_page |-> per_page, total |-> total,
                              pages_total |-> pages_total,
                              reports |-> OffsetLimit(rows, (page - 1) * per_page, per_page)])]

\* ------------------------------------------------------------------ ua_detect
\* `needle in s`
Contains(s, needle) ==
    \E i \in 1..(Len(s) - Len(needle) + 1) : SubSeq(s, i, i + Len(needle) - 1) = needle

\* _contains_any: both sides are lower-cased
contains_any(s, needles) == \E n \in needles : Contains(Lower(s), Lower(n))

android == <<"a","n","d","r","o","i","d">>
mobile == <<"m","o","b","i","l","e">>
ipad == <<"i","p","a","d">>
iphone == <<"i","p","h","o","n","e">>
ipod == <<"i","p","o","d">>
IosIndicators == {iphone, ipad, ipod}
\* generic tablet indicators
TabletIndicators ==
    { <<"t","a","b","l","e","t">>,
      <<"k","i","n","d","l","e">>,
      <<"s","i","l","k","/">>,
      <<"p","l","a","y","b","o","o","k">>,
      <<"s","m","-","t">>,
      <<"n","e","x","u","s"," ","7">>,
      <<"n","e","x","u","s"," ","9">>,
      <<"x","o","o","m">> }
\* generic mobile indicators
MobileIndicators ==
    { <<"m","o","b","i">>,
      iphone,
      ipod,
      <<"w","i","n","d","o","w","s"," ","p","h","o","n","e">>,
      <<"b","l","a","c","k","b","e","r","r","y">>,
      <<"o","p","e","r","a"," ","m","i","n","i">>,
      <<"o","p","e","r","a"," ","m","o","b","i">> }

ClientProfile(kind, is_android, is_ios) ==
    [kind |-> kind, is_android |-> is_android, is_ios |-> is_ios]

\* mutant: every Android user agent is a phone
AndroidProfile_always_mobile(ua_l) == ClientProfile("MOBILE", TRUE, FALSE)

\* the `if is_android:` branch
AndroidProfile(ua_l) ==
    IF Contains(ua_l, mobile)
    THEN ClientProfile("MOBILE", TRUE, FALSE)
    ELSE ClientProfile("TABLET", TRUE, FALSE)

\* mutant: the generic tablet indicators are tested before the Android marker
detect_client_profile_tablet_first(user_agent) ==
    LET ua == Strip(IF user_agent = None THEN <<>> ELSE user_agent[1])
        ua_l == Lower(ua)
    IN IF ua = <<>> THEN ClientProfile("DESKTOP", FALSE, FALSE)
       ELSE IF Contains(ua_l, ipad) THEN ClientProfile("TABLET", FALSE, TRUE)
       ELSE IF contains_any(ua_l, TabletIndicators) THEN ClientProfile("TABLET", FALSE, FALSE)
       ELSE IF Contains(ua_l, android) THEN AndroidProfile(ua_l)
       ELSE IF contains_any(ua_l, MobileIndicators)
            THEN ClientProfile("MOBILE", FALSE, contains_any(ua_l, IosIndicators))
       ELSE ClientProfile("DESKTOP", FALSE, contains_any(ua_l, IosIndicators))

\* detect_client_profile(user_agent: str | None)
detect_client_profile(user_agent) ==
    LET \* (user_agent or "").strip()
        ua == Strip(IF user_agent = None THEN <<>> ELSE user_agent[1])
        ua_l == Lower(ua)
        is_android == Contains(ua_l, android)
        is_ios == contains_any(ua_l, IosIndicators)
    IN IF ua = <<>> THEN ClientProfile("DESKTOP", FALSE, FALSE)
       ELSE IF Contains(ua_l, ipad) THEN ClientProfile("TABLET", FALSE, TRUE)
       ELSE IF is_android THEN AndroidProfile(ua_l)
       ELSE IF contains_any(ua_l, TabletIndicators) THEN ClientProfile("TABLET", FALSE, FALSE)
       ELSE IF contains_any(ua_l, MobileIndicators) THEN ClientProfile("MOBILE", FALSE, is_ios)
       ELSE ClientProfile("DESKTOP", FALSE, is_ios)

\* the classifier applied to the user agent at hand
Classify ==
    /\ client.profile = None
    /\ client' = [client EXCEPT !.profile = Some(detect_client_profile(client.user_agent))]
    /\ UNCHANGED <<reports, history, photos, files, devices, now, resp, listed, sessions>>

\* ------------------------------------------------------------------ role pages
\* detect_client_kind(request): the kind of the profile of the User-Agent header
detect_client_kind(user_agent) == detect_client_profile(user_agent).kind

\* GET /app/{role}; header and cookie are the x-device-id header and the
\* hotel_device_id cookie
web_app_role(role, header, cookie, user_agent) ==
    LET role_key == Lower(Strip(role))
        device_id == IF header # None THEN header ELSE cookie
        found == device_id # None /\ device_id[1] \in DOMAIN devices
        answer == [Response("app", IF device_id = None THEN 0 ELSE device_id[1], "html")
                     EXCEPT !.roles = <<role>>]
    IN /\ UNCHANGED <<reports, history, photos, files, devices, now>>
       /\ resp' =
            IF role_key \notin WEB_APP_ROLES THEN [answer EXCEPT !.outcome = "not_found"]
            ELSE IF found /\ devices[device_id[1]].roles # {}
                       /\ role_key \notin devices[device_id[1]].roles
                 THEN [answer EXCEPT !.outcome = "forbidden"]
            ELSE [answer EXCEPT
                     !.served = Some(<<"web_app.html", role_key, detect_client_kind(user_agent)>>)]

\* ------------------------------------------------------------------ requests in flight
\* mark_done and reopen as the two steps a request takes when others run at
\* the same time: db.get loads the row into the request's session, and the
\* test of the status, the assignments, db.add and db.commit follow later on
\* what was loaded.
IdleSession == [op |-> "none", report_id |-> 0, status |-> "none"]
TargetStatus(op) == IF op = "done" THEN "DONE" ELSE "OPEN"

\* admin_require, csrf_protect, report = db.get(Report, report_id)
report_transition_load(w, op, report_id) ==
    /\ sessions[w] = IdleSession
    /\ IF report_id \notin DOMAIN reports
       THEN /\ resp' = Response(op, report_id, "not_found")
            /\ UNCHANGED sessions
       ELSE /\ sessions' = [sessions EXCEPT ![w] =
                   [op |-> op, report_id |-> report_id, status |-> reports[report_id].status]]
            /\ UNCHANGED resp
    /\ UNCHANGED <<reports, history, photos, files, devices, now, listed, client>>

\* what the store does with the UPDATE of a row that another request has
\* changed since this one loaded it: it applies it, or it fails the transaction
StoreVerdicts == {"applies", "fails"}

\* if report.status != target: ...; db.add(ReportHistory(...)); db.commit()
report_transition_commit(w, verdict) ==
    LET s == sessions[w]
        r == s.report_id
        target == TargetStatus(s.op)
        stale == reports[r].status # s.status
    IN /\ s # IdleSession
       /\ sessions' = [sessions EXCEPT ![w] = IdleSession]
       /\ UNCHANGED <<photos, files, devices, listed, client>>
       /\ IF s.status = target
          THEN /\ resp' = Response(s.op, r, "redirect")
               /\ UNCHANGED <<reports, history, now>>
          ELSE /\ s.op = "done" => now <= MaxTime
               /\ now' = IF s.op = "done" THEN now + 1 ELSE now
               /\ IF stale /\ verdict = "fails"
                  THEN /\ resp' = Response(s.op, r, "server_error")
                       /\ UNCHANGED <<reports, history>>
                  ELSE /\ reports' = [reports EXCEPT ![r] =
                             [@ EXCEPT !.status = target,
                                       !.done_at = IF s.op = "done" THEN Some(now) ELSE None,
                                       !.done_by_device_id = None]]
                       /\ history' = Append(history,
                             HistoryRow(r, IF s.op = "done" THEN "MARK_DONE" ELSE "REOPEN",
                                        s.status, target))
                       /\ resp' = Response(s.op, r, "redirect")

\* ------------------------------------------------------------------ system

\* a stored report: resolved by a device at time 0, or open
InitReports ==
    { [report_type |-> "FIND", status |-> "OPEN", room |-> 101, created_at |-> 0,
       done_at |-> None, done_by_device_id |-> None],
      [report_type |-> "ISSUE", status |-> "DONE", room |-> 201, created_at |-> 0,
       done_at |-> Some(0), done_by_device_id |-> Some(1)] }

\* a registered device: pending (with or without roles), or active since time 0
InitDevices ==
    { [status |-> "PENDING", roles |-> {}, activated_at |-> None, revoked_at |-> None],
      [status |-> "PENDING", roles |-> {breakfast}, activated_at |-> None, revoked_at |-> None],
      [status |-> "ACTIVE", roles |-> {maintenance}, activated_at |-> Some(0), revoked_at |-> None] }

InitFiles ==
    { [orig |-> TRUE, thumb |-> "absent"],
      [orig |-> TRUE, thumb |-> "uploaded"],
      [orig |-> FALSE, thumb |-> "absent"] }

ResponseNone == Response("none", 0, "none")
\* no listing is being paged through
NotListing == [query |-> None, pages |-> <<>>]
\* no user agent has been classified
NotClassified == [user_agent |-> None, profile |-> None]
\* no request is in flight
NoSessions == <<>>

\* one stored state of each table, for the specifications that leave it alone
OpenReports == [r \in ReportIds |->
    [report_type |-> "FIND", status |-> "OPEN", room |-> 101, created_at |-> 0,
     done_at |-> None, done_by_device_id |-> None]]
PendingDevices == [d \in DeviceIds |->
    [status |-> "PENDING", roles |-> {}, activated_at |-> None, revoked_at |-> None]]
OriginalsOnly == [p \in PhotoIds |-> [orig |-> TRUE, thumb |-> "absent"]]

\* what the guards of a request find: the rate limiter, admin_require and
\* csrf_protect run in this order, and the first that fails ends the request,
\* so the later ones are listed as passing
Contexts ==
    { c \in [limited : BOOLEAN, authed : BOOLEAN, csrfOk : BOOLEAN] :
        /\ c.limited => (c.authed /\ c.csrfOk)
        /\ ~c.authed => c.csrfOk }
\* the handlers without a rate limit
UnlimitedContexts == {c \in Contexts : ~c.limited}

ReportRequest ==
  /\ UNCHANGED <<listed, client, sessions>>
  /\
    \/ \E id \in ReportIdInputs, c \in UnlimitedContexts :
          admin_report_done(id, c.authed, c.csrfOk)
    \/ \E id \in ReportIdInputs, c \in UnlimitedContexts :
          admin_report_reopen(id, c.authed, c.csrfOk)
    \/ \E id \in ReportIdInputs, c \in UnlimitedContexts, mediaFails \in BOOLEAN :
          admin_report_delete(id, c.authed, c.csrfOk, mediaFails)

DeviceRequest ==
  /\ UNCHANGED <<listed, client, sessions>>
  /\
    \/ \E id \in DeviceIdInputs, roles \in RoleLists, c \in Contexts :
          admin_device_activate(id, roles, c.limited, c.authed, c.csrfOk)
    \/ \E id \in DeviceIdInputs, roles \in RoleLists, c \in Contexts :
          admin_device_roles(id, roles, c.limited, c.authed, c.csrfOk)
    \/ \E id \in DeviceIdInputs, c \in Contexts :
          admin_device_revoke(id, c.limited, c.authed, c.csrfOk)
    \/ \E id \in DeviceIdInputs, c \in Contexts :
          admin_device_delete(id, c.limited, c.authed, c.csrfOk)
    \/ \E c \in Contexts :
          admin_devices_delete_pending(c.limited, c.authed, c.csrfOk)

MediaRequest ==
  /\ UNCHANGED <<listed, client, sessions>>
  /\
    \E id \in PhotoIdInputs, kind \in {"thumb", "original", "preview"},
       authed \in BOOLEAN, gen \in GenOutcomes :
          admin_media(id, kind, authed, gen)

\* the report handlers, over every stored state of the reports
InitReportsSpec ==
    /\ reports \in [ReportIds -> InitReports]
    /\ history = <<>>
    /\ photos = PhotoIds
    /\ files = OriginalsOnly
    /\ devices = PendingDevices
    /\ now = 1
    /\ resp = ResponseNone
    /\ listed = NotListing
    /\ client = NotClassified
    /\ sessions = NoSessions
NextReports == ReportRequest
SpecReports == InitReportsSpec /\ [][NextReports]_vars

\* the device handlers, over every stored state of the devices
InitDevicesSpec ==
    /\ reports = OpenReports
    /\ history = <<>>
    /\ photos = PhotoIds
    /\ files = OriginalsOnly
    /\ devices \in [DeviceIds -> InitDevices]
    /\ now = 1
    /\ resp = ResponseNone
    /\ listed = NotListing
    /\ client = NotClassified
    /\ sessions = NoSessions
NextDevices == DeviceRequest
SpecDevices == InitDevicesSpec /\ [][NextDevices]_vars

\* the media endpoint, with report deletion removing photos and files
InitMediaSpec ==
    /\ reports = OpenReports
    /\ history = <<>>
    /\ photos = PhotoIds
    /\ files \in [PhotoIds -> InitFiles]
    /\ devices = PendingDevices
    /\ now = 1
    /\ resp = ResponseNone
    /\ listed = NotListing
    /\ client = NotClassified
    /\ sessions = NoSessions
NextMedia ==
    \/ MediaRequest
    \/ /\ UNCHANGED <<listed, client, sessions>>
       /\ \E id \in ReportIdInputs, mediaFails \in BOOLEAN :
             admin_report_delete(id, TRUE, TRUE, mediaFails)
SpecMedia == InitMediaSpec /\ [][NextMedia]_vars

\* a stored report of the listing's store; `spread` reports share a created_at
ListedReport(i, spread) ==
    [report_type |-> IF i % 3 = 0 THEN "ISSUE" ELSE "FIND",
     status |-> IF i % 2 = 0 THEN "DONE" ELSE "OPEN",
     room |-> 101 + (i % 3),
     created_at |-> (i + spread - 1) \div spread,
     done_at |-> IF i % 2 = 0 THEN Some(i + 1) ELSE None,
     done_by_device_id |-> None]

\* the query strings of the model: the defaults, with at most one filter
DefaultQuery ==
    [category |-> None, type |-> None, status |-> None, room |-> None, date |-> None,
     sort |-> "created_desc", per_page |-> 25]
Queries ==
    LET filters ==
            {DefaultQuery}
            \cup {[DefaultQuery EXCEPT !.category = c] : c \in {Some(""), Some("FIND"), Some("find")}}
            \cup {[DefaultQuery EXCEPT !.type = Some("ISSUE")]}
            \cup {[DefaultQuery EXCEPT !.status = st] : st \in {Some("OPEN"), Some("CLOSED")}}
            \cup {[DefaultQuery EXCEPT !.room = r] : r \in {Some(101), Some(110)}}
            \cup {[DefaultQuery EXCEPT !.date = d] :
                     d \in {Some([iso |-> TRUE, day |-> 1]), Some([iso |-> FALSE, day |-> 0])}}
    IN {[f EXCEPT !.sort = srt, !.per_page = pp] :
           f \in filters, srt \in SortKeys \cup {"id_asc"}, pp \in {5, 10, 25}}

\* a client pages through one listing of a fixed store: page 1, then every
\* page up to the pages_total the first response gave
InitListSpec ==
    /\ \E n \in 0..MaxListed, spread \in 1..2 :
          reports = [i \in 1..n |-> ListedReport(i, spread)]
    /\ history = <<>>
    /\ photos = {}
    /\ files = OriginalsOnly
    /\ devices = PendingDevices
    /\ now = 1
    /\ resp = ResponseNone
    /\ \E q \in Queries : listed = [query |-> Some(q), pages |-> <<>>]
    /\ client = NotClassified
    /\ sessions = NoSessions
NextList ==
    \E authed \in BOOLEAN, tie \in TieOrders :
        /\ UNCHANGED <<client, sessions>>
        /\ listed.pages # <<>> => Len(listed.pages) < listed.pages[1].pages_total
        /\ admin_reports_list(listed.query[1], Len(listed.pages) + 1, authed, tie)
SpecList == InitListSpec /\ [][NextList]_vars

\* the pieces of the user agents classified: product, device and platform
\* words in the case browsers send them, and a blank
UATokens ==
    { <<"M","o","z","i","l","l","a","/","5",".","0">>,
      <<"i","P","a","d">>,
      <<"A","n","d","r","o","i","d">>,
      <<"M","o","b","i","l","e">>,
      <<"T","a","b","l","e","t">>,
      <<"i","P","h","o","n","e">>,
      <<" ">> }

\* the strings of at most n pieces
RECURSIVE UserAgents(_)
UserAgents(n) ==
    IF n = 0 THEN {<<>>}
    ELSE LET shorter == UserAgents(n - 1)
         IN shorter \cup {s \o t : s \in shorter, t \in UATokens}

\* the User-Agent header: absent, or a string
UserAgentInputs == {None} \cup {Some(s) : s \in UserAgents(MaxTokens)}

\* the classifier, over every user agent of the model
InitClassifySpec ==
    /\ reports = OpenReports
    /\ history = <<>>
    /\ photos = PhotoIds
    /\ files = OriginalsOnly
    /\ devices = PendingDevices
    /\ now = 1
    /\ resp = ResponseNone
    /\ listed = NotListing
    /\ \E u \in UserAgentInputs : client = [user_agent |-> u, profile |-> None]
    /\ sessions = NoSessions
NextClassify == Classify
SpecClassify == InitClassifySpec /\ [][NextClassify]_vars

\* the role parameter of a page request: a key, a padded key, an unknown value
RoleInputs == {housekeeping, PaddedFrontDesk, bogus_role}
\* the device a request names, by header or by cookie: none, a stored one by
\* either, one that never existed, and a header that overrides the cookie
DeviceRefs ==
    {[header |-> None, cookie |-> None], [header |-> Some(NumDevices + 1), cookie |-> Some(1)]}
    \cup {[header |-> Some(d), cookie |-> None] : d \in DeviceIds}
    \cup {[header |-> None, cookie |-> Some(d)] : d \in DeviceIds}
IpadUserAgent == <<"(","i","P","a","d",";"," ","C","P","U",")">>

RoleRequest ==
    /\ UNCHANGED <<listed, client, sessions>>
    /\ \E role \in RoleInputs, ref \in DeviceRefs, user_agent \in {None, Some(IpadUserAgent)} :
            web_app_role(role, ref.header, ref.cookie, user_agent)

\* the device requests of an administrator that change a stored device
DeviceChange ==
    /\ UNCHANGED <<listed, client, sessions>>
    /\ \/ \E id \in DeviceIds, roles \in RoleLists :
             admin_device_activate(id, roles, FALSE, TRUE, TRUE)
       \/ \E id \in DeviceIds, roles \in RoleLists :
             admin_device_roles(id, roles, FALSE, TRUE, TRUE)
       \/ \E id \in DeviceIds : admin_device_revoke(id, FALSE, TRUE, TRUE)
       \/ \E id \in DeviceIds : admin_device_delete(id, FALSE, TRUE, TRUE)
       \/ admin_devices_delete_pending(FALSE, TRUE, TRUE)

\* the role pages, with the device handlers changing status and roles; a
\* registered device has no roles before it is activated
InitAccessSpec ==
    /\ reports = OpenReports
    /\ history = <<>>
    /\ photos = PhotoIds
    /\ files = OriginalsOnly
    /\ devices \in [DeviceIds -> {d \in InitDevices : d.status = "PENDING" => d.roles = {}}]
    /\ now = 1
    /\ resp = ResponseNone
    /\ listed = NotListing
    /\ client = NotClassified
    /\ sessions = NoSessions
NextAccess ==
    \/ DeviceChange
    \/ RoleRequest
SpecAccess == InitAccessSpec /\ [][NextAccess]_vars

\* the report requests of an administrator on the stored reports
ReportChange ==
    /\ UNCHANGED <<listed, client, sessions>>
    /\ \/ \E id \in ReportIds : admin_report_done(id, TRUE, TRUE)
       \/ \E id \in ReportIds : admin_report_reopen(id, TRUE, TRUE)
       \/ \E id \in ReportIds, mediaFails \in BOOLEAN :
             admin_report_delete(id, TRUE, TRUE, mediaFails)

\* the audit trail under every request that changes reports or devices:
\* report 1 was resolved by a device, the others are open
InitAuditSpec ==
    /\ reports = [r \in ReportIds |->
          IF r = 1
          THEN [OpenReports[r] EXCEPT !.status = "DONE", !.done_at = Some(0),
                                      !.done_by_device_id = Some(1)]
          ELSE OpenReports[r]]
    /\ history = <<>>
    /\ photos = PhotoIds
    /\ files = OriginalsOnly
    /\ devices = PendingDevices
    /\ now = 1
    /\ resp = ResponseNone
    /\ listed = NotListing
    /\ client = NotClassified
    /\ sessions = NoSessions
NextAudit ==
    \/ ReportChange
    \/ DeviceChange
SpecAudit == InitAuditSpec /\ [][NextAudit]_vars

\* mark_done and reopen requests that overlap
Workers == 1..NumWorkers
InitConcurrentSpec ==
    /\ reports \in [ReportIds -> InitReports]
    /\ history = <<>>
    /\ photos = PhotoIds
    /\ files = OriginalsOnly
    /\ devices = PendingDevices
    /\ now = 1
    /\ resp = ResponseNone
    /\ listed = NotListing
    /\ client = NotClassified
    /\ sessions = [w \in Workers |-> IdleSession]
NextConcurrent ==
    \/ \E w \in Workers, op \in {"done", "reopen"}, id \in ReportIdInputs :
          report_transition_load(w, op, id)
    \/ \E w \in Workers, verdict \in StoreVerdicts :
          report_transition_commit(w, verdict)
SpecConcurrent == InitConcurrentSpec /\ [][NextConcurrent]_vars

\* every handler that changes reports or devices, from one stored state:
\* one report, resolved by a device, and pending devices
Init ==
    /\ reports = [r \in {1} |->
          [OpenReports[r] EXCEPT !.status = "DONE", !.done_at = Some(0),
                                 !.done_by_device_id = Some(1)]]
    /\ history = <<>>
    /\ photos = PhotoIds
    /\ files = OriginalsOnly
    /\ devices = PendingDevices
    /\ now = 1
    /\ resp = ResponseNone
    /\ listed = NotListing
    /\ client = NotClassified
    /\ sessions = NoSessions
Next ==
    \/ ReportRequest
    \/ DeviceRequest
Spec == Init /\ [][Next]_vars

\* ------------------------------------------------------------------ claims
\* the history rows of one report, in insertion order
RowsOf(r) == SelectSeq(history, LAMBDA row : row.report_id = r)

\* the last request was let in by the guards and found its row
Handled(op) == resp.op = op /\ resp.outcome = "redirect"

\* C1: in every state reached by mark_done, reopen and delete requests from
\* reports with (status = DONE iff done_at is set), every stored report has
\* status = DONE exactly when its done_at is set.
C1_DoneIffDoneAt ==
    \A r \in DOMAIN reports :
        (reports[r].status = "DONE") <=> (reports[r].done_at # None)

\* C1 witness: one report was marked done by a request (done_at is the
\* request's time, not the stored one) and another one was reopened.
C1_Witness ==
    /\ \E r \in DOMAIN reports :
          reports[r].status = "DONE" /\ reports[r].done_at = Some(1)
    /\ \E r \in DOMAIN reports :
          /\ reports[r].status = "OPEN"
          /\ Len(RowsOf(r)) > 0
          /\ RowsOf(r)[Len(RowsOf(r))].action = "REOPEN"

\* C2: a mark_done or reopen request on an existing report appends exactly one
\* history row, from the status before to the status after, when the status
\* changes; when the report is already in the target status it appends no row
\* and leaves status, done_at and done_by alone.
C2_Step ==
    (resp'.op \in {"done", "reopen"} /\ resp'.outcome = "redirect") =>
        LET r == resp'.id
            target == IF resp'.op = "done" THEN "DONE" ELSE "OPEN"
        IN /\ r \in DOMAIN reports /\ r \in DOMAIN reports'
           /\ reports'[r].status = target
           /\ IF reports[r].status # target
              THEN /\ Len(history') = Len(history) + 1
                   /\ SubSeq(history', 1, Len(history)) = history
                   /\ history'[Len(history')].report_id = r
                   /\ history'[Len(history')].from_status = reports[r].status
                   /\ history'[Len(history')].to_status = reports'[r].status
              ELSE /\ history' = history
                   /\ reports'[r] = reports[r]
C2_OneRowPerTransition == [][C2_Step]_vars

\* C2 witness: a mark_done that found its report already DONE, still resolved
\* by the device that resolved it, after a transition of the other report
\* appended its row.
C2_Witness ==
    /\ Handled("done")
    /\ resp.id \in DOMAIN reports
    /\ reports[resp.id].done_by_device_id = Some(1)
    /\ reports[resp.id].done_at = Some(0)
    /\ Len(history) = 1
    /\ history[1].report_id # resp.id

\* C3: the history rows appended for one report form a chain: no row has
\* from_status = to_status, each row starts from the status the previous one
\* ended in, a MARK_DONE row is OPEN -> DONE and a REOPEN row is DONE -> OPEN.
C3_HistoryChain ==
    \A r \in ReportIds :
        LET rows == RowsOf(r)
        IN \A i \in 1..Len(rows) :
              /\ rows[i].from_status # rows[i].to_status
              /\ i > 1 => rows[i].from_status = rows[i - 1].to_status
              /\ rows[i].action = "MARK_DONE" =>
                    (rows[i].from_status = "OPEN" /\ rows[i].to_status = "DONE")
              /\ rows[i].action = "REOPEN" =>
                    (rows[i].from_status = "DONE" /\ rows[i].to_status = "OPEN")

\* C3 witness: reopen then mark_done on a report that was DONE left exactly
\* two rows, DONE -> OPEN then OPEN -> DONE.
C3_Witness ==
    \E r \in DOMAIN reports :
        /\ Handled("done") /\ resp.id = r
        /\ Len(RowsOf(r)) = 2
        /\ RowsOf(r)[1].from_status = "DONE" /\ RowsOf(r)[1].to_status = "OPEN"
        /\ RowsOf(r)[2].from_status = "OPEN" /\ RowsOf(r)[2].to_status = "DONE"

\* C4: a delete request on an existing report removes the report, its photos
\* and its history rows and ends in the success redirect, whether or not the
\* media-file deletion that follows the commit fails; nothing else in the
\* tables changes.
C4_Step ==
    (resp'.op = "delete" /\ resp'.id \in DOMAIN reports
        /\ resp'.outcome \notin {"auth_error", "csrf_error"}) =>
        LET r == resp'.id
        IN /\ resp'.outcome = "redirect"
           /\ resp'.media \in {"ok", "failed"}
           /\ r \notin DOMAIN reports'
           /\ \A q \in (DOMAIN reports) \ {r} : q \in DOMAIN reports' /\ reports'[q] = reports[q]
           /\ photos' = {p \in photos : Owner(p) # r}
           /\ history' = SelectSeq(history, LAMBDA row : row.report_id # r)
           /\ resp'.media = "ok" => \A p \in PhotoIds : Owner(p) = r => ~files'[p].orig
C4_DeleteCommitsBeforeMedia == [][C4_Step]_vars

\* C4 witness: a report with photos and history rows was deleted, the media
\* deletion failed (the files are still there), and the request was redirected.
C4_Witness ==
    /\ Handled("delete")
    /\ resp.media = "failed"
    /\ resp.id \notin DOMAIN reports
    /\ \E p \in PhotoIds : Owner(p) = resp.id /\ files[p].orig /\ p \notin photos
    /\ \A i \in 1..Len(history) : history[i].report_id # resp.id
    /\ now > 1

\* the values of a roles form field
Requested(roles) == {roles[i] : i \in 1..Len(roles)}
\* the allowed role keys among them, as sent
AllowedAsSent(roles) == Requested(roles) \cap WEB_APP_ROLES
\* the allowed role keys among them once trimmed and lower-cased
AllowedNormalised(roles) == {Lower(Strip(r)) : r \in Requested(roles)} \cap WEB_APP_ROLES

\* the device row `id` became `after` and no other row changed
OnlyDeviceChanged(id, after) ==
    /\ DOMAIN devices' = DOMAIN devices
    /\ devices'[id] = after
    /\ \A d \in (DOMAIN devices) \ {id} : devices'[d] = devices[d]

\* the allowed roles of a request, read as sent or after normalisation
AllowedRoles(roles, normalised) ==
    IF normalised THEN AllowedNormalised(roles) ELSE AllowedAsSent(roles)

ActivateStep(normalised) ==
    (resp'.op = "activate" /\ resp'.outcome = "redirect") =>
        LET d == resp'.id
            allowed == AllowedRoles(resp'.roles, normalised)
        IN /\ d \in DOMAIN devices
           /\ IF devices[d].status = "PENDING"
              THEN OnlyDeviceChanged(d,
                      [devices[d] EXCEPT
                          !.status = "ACTIVE",
                          !.activated_at = Some(now),
                          !.roles = IF allowed # {} THEN allowed ELSE @])
              ELSE devices' = devices

\* C5 as stated: activate on a PENDING device sets ACTIVE, the activation
\* time and the requested roles that are allowed role keys (the old roles when
\* none is); on a device that is not PENDING it changes nothing.
C5_AsStated == [][ActivateStep(FALSE)]_vars

\* C5 (amended): the same, the requested roles being compared with the allowed
\* role keys after trimming surrounding whitespace and lower-casing.
C5_ActivateNormalised == [][ActivateStep(TRUE)]_vars

\* C5 witness: a request with " FrontDesk " and "maintenance" activated a
\* device with roles {frontdesk, maintenance} at the request's time.
C5_Witness ==
    /\ Handled("activate")
    /\ resp.roles = <<PaddedFrontDesk, maintenance>>
    /\ resp.id \in DOMAIN devices
    /\ devices[resp.id].status = "ACTIVE"
    /\ devices[resp.id].roles = {frontdesk, maintenance}
    /\ devices[resp.id].activated_at = Some(now - 1)

RolesStep(normalised) ==
    (resp'.op = "roles" /\ resp'.outcome = "redirect") =>
        LET d == resp'.id
        IN /\ d \in DOMAIN devices
           /\ now' = now
           /\ IF devices[d].status = "ACTIVE"
              THEN OnlyDeviceChanged(d,
                      [devices[d] EXCEPT !.roles = AllowedRoles(resp'.roles, normalised)])
              ELSE devices' = devices

\* C6 as stated: set_roles on an ACTIVE device replaces the roles by exactly
\* the requested roles that are allowed role keys, leaving status and
\* timestamps alone; on a PENDING or REVOKED device it changes nothing.
C6_AsStated == [][RolesStep(FALSE)]_vars

\* C6 (amended): the same, the requested roles being compared with the allowed
\* role keys after trimming surrounding whitespace and lower-casing; an empty
\* or all-unknown request clears the roles.
C6_SetRolesNormalised == [][RolesStep(TRUE)]_vars

\* C6 witness: a request carrying only unknown values cleared the roles of the
\* device that has been active, with a role, since time 0.
C6_Witness ==
    /\ Handled("roles")
    /\ resp.roles = <<bogus_role, <<>> >>
    /\ resp.id \in DOMAIN devices
    /\ devices[resp.id].status = "ACTIVE"
    /\ devices[resp.id].activated_at = Some(0)
    /\ devices[resp.id].roles = {}

\* C7: a PENDING device leaves PENDING only by becoming ACTIVE or by being
\* deleted, and a device becomes REVOKED only from ACTIVE.
C7_Step ==
    \A d \in DOMAIN devices :
        /\ (devices[d].status = "PENDING" /\ d \in DOMAIN devices') =>
               devices'[d].status \in {"PENDING", "ACTIVE"}
        /\ (d \in DOMAIN devices' /\ devices'[d].status = "REVOKED"
               /\ devices[d].status # "REVOKED") =>
               devices[d].status = "ACTIVE"
C7_Lifecycle == [][C7_Step]_vars

\* C8: a report or device request that ends in an authorization, CSRF or
\* not-found error leaves reports, photos, history rows and devices unchanged.
C8_Step ==
    resp'.outcome \in {"auth_error", "csrf_error", "not_found"} =>
        UNCHANGED <<reports, photos, history, devices>>
C8_ErrorsChangeNothing == [][C8_Step]_vars

\* C8 witness: a delete request for a report that an earlier request deleted
\* ended in not-found, after a device was activated.
C8_Witness ==
    /\ resp.op = "delete" /\ resp.outcome = "not_found"
    /\ resp.id = 1 /\ 1 \notin DOMAIN reports
    /\ \E d \in DOMAIN devices : devices[d].activated_at = Some(1)

\* the rows of the pages fetched so far, one page after the other
RECURSIVE ConcatPages(_, _)
ConcatPages(pages, k) ==
    IF k = 0 THEN <<>> ELSE ConcatPages(pages, k - 1) \o pages[k].reports

\* the client has every page of its listing
ListingComplete ==
    /\ listed.pages # <<>>
    /\ Len(listed.pages) = listed.pages[1].pages_total

\* C9: with page size p (clamped to [10,100]) and n matching reports, every
\* page reports total = n and pages_total = max(1, ceil(n/p)), and the rows of
\* pages 1..pages_total, one after the other, are the filtered result in sort
\* order with every matching report exactly once.
C9_PagesPartition ==
    listed.pages # <<>> =>
        LET q == listed.query[1]
            p == IF q.per_page < 10 THEN 10 ELSE IF q.per_page > 100 THEN 100 ELSE q.per_page
            matching == {r \in DOMAIN reports : Matches(reports[r], q)}
            n == Cardinality(matching)
            all == ConcatPages(listed.pages, Len(listed.pages))
        IN /\ \A k \in 1..Len(listed.pages) :
                 /\ listed.pages[k].total = n
                 /\ listed.pages[k].pages_total = Max(1, (n + p - 1) \div p)
           /\ ListingComplete =>
                 /\ Len(all) = n
                 /\ \A r \in matching : Cardinality({i \in 1..Len(all) : all[i] = r}) = 1
                 /\ \A i, j \in 1..Len(all) :
                       i < j => OrderBy(reports[all[i]], reports[all[j]], q.sort) <= 0

\* C10: a thumb request for an existing photo whose original exists and whose
\* thumbnail is absent runs the generation and, when the generation succeeds,
\* leaves the thumbnail at its path and serves it; a thumb request that finds
\* the thumbnail file present serves that file, generates nothing and leaves
\* the files alone.
C10_Step ==
    (resp'.op = "media" /\ resp'.kind = "thumb" /\ resp'.id \in photos) =>
        LET p == resp'.id
        IN /\ (files[p].thumb = "absent" /\ files[p].orig) =>
                 /\ resp'.generated \in GenOutcomes
                 /\ resp'.generated = "ok" =>
                       /\ files'[p].thumb = "generated"
                       /\ resp'.outcome = "file"
                       /\ resp'.served = Some(<<p, "thumb", "generated">>)
           /\ files[p].thumb # "absent" =>
                 /\ resp'.generated = "none"
                 /\ files' = files
                 /\ resp'.outcome = "file"
                 /\ resp'.served = Some(<<p, "thumb", files[p].thumb>>)
C10_ThumbGeneratedOnce == [][C10_Step]_vars

\* C10 witness: a thumb request served, without generating, the thumbnail
\* that an earlier request generated.
C10_Witness ==
    /\ resp.op = "media" /\ resp.kind = "thumb" /\ resp.outcome = "file"
    /\ resp.generated = "none"
    /\ resp.served = Some(<<resp.id, "thumb", "generated">>)
    /\ files[resp.id].thumb = "generated"

\* C11: a thumb request whose on-demand generation fails, at whatever step,
\* also after the thumbnail file was partly written, ends in the not-found
\* error and serves no file.
C11_Step ==
    (resp'.op = "media" /\ resp'.generated \in {"fail_early", "fail_partial"}) =>
        /\ resp'.outcome = "not_found"
        /\ resp'.served = None
C11_FailedGenerationNotFound == [][C11_Step]_vars

\* the user agent classified, "" when absent, and what `in` is asked of
ClassifiedInput == IF client.user_agent = None THEN <<>> ELSE client.user_agent[1]
Classified == client.profile # None
Profile == client.profile[1]

\* the rules in the order they are tried, and the kind each gives
RuleKinds == <<"TABLET", "MOBILE", "TABLET", "TABLET", "MOBILE", "DESKTOP">>
RuleMatches(i, l) ==
    CASE i = 1 -> Contains(l, ipad)
      [] i = 2 -> Contains(l, android) /\ Contains(l, mobile)
      [] i = 3 -> Contains(l, android)
      [] i = 4 -> \E t \in TabletIndicators : Contains(l, t)
      [] i = 5 -> \E m \in MobileIndicators : Contains(l, m)
      [] i = 6 -> TRUE

\* the kind of the first rule that matches the lower-cased user agent l
KindInOrder(l) ==
    RuleKinds[CHOOSE i \in 1..Len(RuleKinds) :
                 RuleMatches(i, l) /\ \A j \in 1..(i - 1) : ~RuleMatches(j, l)]

\* C12: the classifier's kind is that of the first match, over the lower-cased
\* user agent, in the order ipad -> TABLET, android -> MOBILE with "mobile"
\* and TABLET without, another tablet indicator -> TABLET, a mobile indicator
\* (iphone and ipod among them) -> MOBILE, otherwise DESKTOP; an empty or
\* absent user agent gives DESKTOP with both platform flags false.
C12_FirstMatchOrder ==
    Classified =>
        /\ Profile.kind = KindInOrder(Lower(ClassifiedInput))
        /\ ClassifiedInput = <<>> => Profile = ClientProfile("DESKTOP", FALSE, FALSE)

\* C12 witness: a user agent with the Android marker, "mobile" and a generic
\* tablet indicator was classified MOBILE: the Android rule came before the
\* tablet indicators.
C12_Witness ==
    /\ Classified
    /\ Contains(Lower(ClassifiedInput), android)
    /\ Contains(Lower(ClassifiedInput), mobile)
    /\ \E t \in TabletIndicators : Contains(Lower(ClassifiedInput), t)
    /\ Profile.kind = "MOBILE"

\* the Android rule, for the user agents outside `excluded`
AndroidRule(excluded) ==
    LET l == Lower(ClassifiedInput)
    IN (Classified /\ Contains(l, android) /\ ~excluded) =>
          Profile.kind = IF Contains(l, mobile) THEN "MOBILE" ELSE "TABLET"

\* C13 as stated: every user agent containing "Android" (in any case) is
\* MOBILE when it also contains "Mobile" and TABLET when it does not.
C13_AsStated == AndroidRule(FALSE)

\* C13 (amended): the same for every user agent that contains "android" and
\* does not contain "ipad", both in any case; one that contains "ipad" is TABLET.
C13_AndroidWithoutIpad ==
    /\ AndroidRule(Contains(Lower(ClassifiedInput), ipad))
    /\ (Classified /\ Contains(Lower(ClassifiedInput), ipad)) => Profile.kind = "TABLET"

\* C13 witness: a user agent carrying "Android" with a capital, and neither
\* "mobile" nor "ipad" in any case, was classified TABLET with is_android set.
C13_Witness ==
    /\ Classified
    /\ Contains(ClassifiedInput, <<"A","n","d","r","o","i","d">>)
    /\ ~Contains(Lower(ClassifiedInput), mobile)
    /\ ~Contains(Lower(ClassifiedInput), ipad)
    /\ Profile = ClientProfile("TABLET", TRUE, FALSE)

\* C14: a request for a valid role page is refused with 403 exactly when the
\* device it names exists, is ACTIVE, has a non-empty role set, and the role
\* set does not contain the role.
C14_Step ==
    (resp'.op = "app" /\ resp'.outcome # "not_found") =>
        LET d == resp'.id
            role_key == Lower(Strip(resp'.roles[1]))
        IN (resp'.outcome = "forbidden") <=>
              /\ d \in DOMAIN devices
              /\ devices[d].status = "ACTIVE"
              /\ devices[d].roles # {}
              /\ role_key \notin devices[d].roles
C14_RefusedOnlyWhenActive == [][C14_Step]_vars

\* the rows of report r in the history h, in insertion order
RowsIn(h, r) == SelectSeq(h, LAMBDA row : row.report_id = r)
IsPrefix(a, b) == Len(a) <= Len(b) /\ SubSeq(b, 1, Len(a)) = a

\* C15: no mark_done, reopen or device request changes or removes a history
\* row: after every request the rows of a report that still exists are its
\* earlier rows, unchanged and in the same order, followed by the rows
\* appended; a report's rows disappear only in the delete request that
\* removes the report.
C15_Step ==
    /\ resp'.op # "delete" => IsPrefix(history, history')
    /\ \A r \in DOMAIN reports :
          IF r \in DOMAIN reports'
          THEN IsPrefix(RowsIn(history, r), RowsIn(history', r))
          ELSE resp'.op = "delete" /\ resp'.id = r
C15_HistoryAppendOnly == [][C15_Step]_vars

\* C15 witness: a device request was handled while the history held the rows
\* of two transitions of a report, mark_done then reopen, a later row of
\* another report among them.
C15_Witness ==
    /\ Handled("device_delete")
    /\ \E r \in DOMAIN reports :
          /\ Len(RowsOf(r)) = 2
          /\ RowsOf(r)[1].action = "MARK_DONE"
          /\ RowsOf(r)[2].action = "REOPEN"
          /\ history[Len(history)].report_id # r

\* C16: when mark_done and reopen requests on one report interleave, each a
\* load of the report followed later by its write and commit, the report's
\* history has one row per status change: no two consecutive rows have the
\* same from_status and to_status, and the last row's to_status is the
\* report's stored status.
C16_OneRowPerChange ==
    \A r \in DOMAIN reports :
        LET rows == RowsOf(r)
        IN /\ \A i \in 2..Len(rows) :
                 ~(rows[i].from_status = rows[i - 1].from_status
                     /\ rows[i].to_status = rows[i - 1].to_status)
           /\ rows # <<>> => rows[Len(rows)].to_status = reports[r].status

\* C17: REVOKED is terminal: no activate, set_roles, revoke or
\* delete_all_pending request changes the status, the role set or the
\* revocation time of a REVOKED device; the device row stays as it is until a
\* single-device delete removes it.
C17_Step ==
    \A d \in DOMAIN devices :
        devices[d].status = "REVOKED" =>
            IF d \in DOMAIN devices'
            THEN devices'[d] = devices[d]
            ELSE resp'.op = "device_delete" /\ resp'.id = d
C17_RevokedIsTerminal == [][C17_Step]_vars

\* C17 witness: a set_roles request naming frontdesk and maintenance was let
\* in for a device revoked at time 1 and left it REVOKED with the one role it
\* had.
C17_Witness ==
    /\ Handled("roles")
    /\ resp.roles = <<PaddedFrontDesk, maintenance>>
    /\ resp.id \in DOMAIN devices
    /\ devices[resp.id].status = "REVOKED"
    /\ devices[resp.id].revoked_at = Some(1)
    /\ devices[resp.id].roles = {maintenance}

====
